---- MODULE Spec2Model ----
(***************************************************************************)
(* Model of lab2-rag-with-bedrock-knowledge-base/kb_bedrock.ipynb:         *)
(* the ChatUX widget loop (class ChatUX) driven by front-end events, and   *)
(* the notebook cells that call retrieve and print the results.            *)
(***************************************************************************)
EXTENDS Integers, Sequences, FiniteSets, TLC

\* ---- bounds of the model ------------------------------------------------
MaxCalls == 3
MaxQueue == 2
MaxScore == 2
MaxModels == 2

\* ---- values ---------------------------------------------------------------
\* Python None
None == "<None>"
\* Python None as the value of self.name / self.b (widgets are numbered from 1)
NoneRef == 0
\* the fixed placeholder answer of the except branch
NoAnswer == "No answer"
\* numberOfResults of the retrieve cell
numberOfResults == 3

\* texts the user can put in the input box
Texts == {"", "q", "Q", "quit", "QUIT", "hi"}
\* session ids the service can return (the empty string included)
SessionIds == {"", "s1", "s2"}
\* answer texts the service can return
Answers == {"a1", "a2"}
\* knowledge base ids the user can paste into the notebook ("" is the shipped one)
KbIds == {"", "KB1"}
\* passages and relevance scores the service can return
Passages == {"t1", "t2"}
Scores == 1..MaxScore
\* line 359
modelId == "anthropic.claude-v2:1"
\* model ids and model ARNs the catalog can list
ModelIds == {modelId, "other"}
Arns == {"arn:claude-v2:1", "arn:other"}

VARIABLES
  started,           \* start_chat has run
  session_id,        \* self.session_id
  name,              \* self.name: index into texts, or NoneRef
  b,                 \* self.b: index into buttons, or NoneRef
  texts,             \* the ipw.Text widgets created so far: [disabled]
  value,             \* the text of each input box that is still enabled; the
                     \* text of a disabled box is not tracked: chat reads
                     \* self.name.value only and line 487 drops the disabled box
  buttons,           \* the ipw.Button widgets created so far: [disabled]
  queue,             \* front-end messages waiting for the kernel, in order
  nCalls,            \* number of retrieve_and_generate calls made
  lastRequest,       \* keyword arguments of the latest call, or None
  nAnswers,          \* number of "AI: ..." lines printed
  last,              \* the latest run of chat: its branch, prompt and output
  lastGen,           \* the latest run of chat that called retrieve_and_generate
  quitted,           \* a quit sentinel has been submitted
  hist,              \* session ids returned so far: by the latest call that
                     \* succeeded, and by the latest response that carried one
  knowledgebase_id,  \* the notebook global
  claude_v2_model_arn, \* the notebook global set by the lookup cell, or None
  pc,                \* next notebook cell to run
  response,          \* the notebook global `response`
  printed,           \* (text, score) pairs printed by the result cell
  cellRequests,      \* requests the notebook cells sent to the service
  modelSummaries,    \* the list the latest list_foundation_models returned
  printedAnswer      \* the answer text printed by line 396, or None

vars == <<started, session_id, name, b, texts, value, buttons, queue, nCalls,
          lastRequest,
          nAnswers, last, lastGen, quitted, hist, knowledgebase_id,
          claude_v2_model_arn, pc, response, printed, cellRequests,
          modelSummaries, printedAnswer>>

chatVars == <<started, session_id, name, b, texts, value, buttons, queue,
              nCalls, lastRequest,
              nAnswers, last, lastGen, quitted, hist>>
cellVars == <<pc, response, printed, cellRequests, modelSummaries,
              printedAnswer>>

\* ---- the service stand-in -----------------------------------------------------
\* a call either raises or returns a response; a response may lack a key
Raise == [error |-> "ServiceError"]
Responses ==
  [sessionId : SessionIds, output : [text : Answers]]
    \cup [sessionId : {"s2"}]
    \cup [output : [text : Answers]]
ServiceOutcomes == {Raise} \cup Responses

\* value of lastGen while no call has been made
NoGen == [exc |-> None, escaped |-> FALSE, raised |-> FALSE, returned |-> None,
          answer |-> None, result |-> None, sidBefore |-> None,
          prevRaised |-> FALSE]

\* ---- ChatUX -------------------------------------------------------------------
\* Python truthiness of self.session_id (line 449)
Truthy(s) == s # None /\ s # ""

\* variant of line 441 without the 'Q' == prompt test
IsQuit_NoUpperQ(prompt) == "q" = prompt \/ "quit" = prompt

\* variant of line 441 comparing prompt.lower()
IsQuit_CaseInsensitive(prompt) ==
  prompt \in {"q", "Q", "quit", "QUIT"}

\* line 441
IsQuit(prompt) == "q" = prompt \/ "quit" = prompt \/ "Q" = prompt

\* lines 437-440
Prompt == IF name = NoneRef THEN "" ELSE value[name]

\* one print(...) or display(...) call
Line(kind, text) == [kind |-> kind, text |-> text]

\* variant of lines 449-475 that passes sessionId on every call
RagRequest_AlwaysSession(sid, prompt) ==
  [sessionId |-> sid, input |-> [text |-> prompt],
   knowledgeBaseId |-> knowledgebase_id, modelArn |-> claude_v2_model_arn]

\* variant of lines 449-475 that sends prompt.lower() as the query text
RagRequest_Lowered(sid, prompt) ==
  LET text == CASE prompt = "Q" -> "q" [] prompt = "QUIT" -> "quit"
                [] OTHER -> prompt
  IN IF Truthy(sid)
     THEN [sessionId |-> sid, input |-> [text |-> text],
           knowledgeBaseId |-> knowledgebase_id,
           modelArn |-> claude_v2_model_arn]
     ELSE [input |-> [text |-> text],
           knowledgeBaseId |-> knowledgebase_id,
           modelArn |-> claude_v2_model_arn]

\* lines 449-475: the keyword arguments of retrieve_and_generate
RagRequest(sid, prompt) ==
  IF Truthy(sid)
  THEN [sessionId |-> sid, input |-> [text |-> prompt],
        knowledgeBaseId |-> knowledgebase_id, modelArn |-> claude_v2_model_arn]
  ELSE [input |-> [text |-> prompt],
        knowledgeBaseId |-> knowledgebase_id, modelArn |-> claude_v2_model_arn]

\* variant of line 480: `except KeyError`
Catches_KeyErrorOnly(e) == e = "KeyError"

\* line 480: `except Exception` catches every exception the try block raises
Catches(e) == e \in {"ServiceError", "KeyError"}

\* variant of lines 480-482 that leaves the previous result in place
TryBlock_StaleAnswer(sid, o) ==
  IF "error" \in DOMAIN o
  THEN [session_id |-> sid, result |-> lastGen.result, exc |-> o.error]
  ELSE IF "sessionId" \notin DOMAIN o
  THEN [session_id |-> sid, result |-> NoAnswer, exc |-> "KeyError"]
  ELSE IF "output" \notin DOMAIN o
  THEN [session_id |-> o.sessionId, result |-> NoAnswer, exc |-> "KeyError"]
  ELSE [session_id |-> o.sessionId, result |-> o.output.text, exc |-> None]

\* variant of lines 480-482 that also resets self.session_id
TryBlock_ClearsOnError(sid, o) ==
  IF "error" \in DOMAIN o
  THEN [session_id |-> None, result |-> NoAnswer, exc |-> o.error]
  ELSE IF "sessionId" \notin DOMAIN o
  THEN [session_id |-> sid, result |-> NoAnswer, exc |-> "KeyError"]
  ELSE IF "output" \notin DOMAIN o
  THEN [session_id |-> o.sessionId, result |-> NoAnswer, exc |-> "KeyError"]
  ELSE [session_id |-> o.sessionId, result |-> o.output.text, exc |-> None]

\* variant of lines 477-478 that displays a fixed text for every answer
TryBlock_FixedAnswer(sid, o) ==
  IF "error" \in DOMAIN o
  THEN [session_id |-> sid, result |-> NoAnswer, exc |-> o.error]
  ELSE IF "sessionId" \notin DOMAIN o
  THEN [session_id |-> sid, result |-> NoAnswer, exc |-> "KeyError"]
  ELSE IF "output" \notin DOMAIN o
  THEN [session_id |-> o.sessionId, result |-> NoAnswer, exc |-> "KeyError"]
  ELSE [session_id |-> o.sessionId, result |-> "a1", exc |-> None]

\* variant of lines 480-482 that forgets the session on a KeyError
TryBlock_ClearsOnKeyError(sid, o) ==
  IF "error" \in DOMAIN o
  THEN [session_id |-> sid, result |-> NoAnswer, exc |-> o.error]
  ELSE IF "sessionId" \notin DOMAIN o
  THEN [session_id |-> None, result |-> NoAnswer, exc |-> "KeyError"]
  ELSE IF "output" \notin DOMAIN o
  THEN [session_id |-> None, result |-> NoAnswer, exc |-> "KeyError"]
  ELSE [session_id |-> o.sessionId, result |-> o.output.text, exc |-> None]

\* variant of line 477 that keeps a session id once one is stored
TryBlock_KeepsFirst(sid, o) ==
  IF "error" \in DOMAIN o
  THEN [session_id |-> sid, result |-> NoAnswer, exc |-> o.error]
  ELSE IF "sessionId" \notin DOMAIN o
  THEN [session_id |-> sid, result |-> NoAnswer, exc |-> "KeyError"]
  ELSE IF "output" \notin DOMAIN o
  THEN [session_id |-> IF sid = None THEN o.sessionId ELSE sid,
        result |-> NoAnswer, exc |-> "KeyError"]
  ELSE [session_id |-> IF sid = None THEN o.sessionId ELSE sid,
        result |-> o.output.text, exc |-> None]

\* lines 448-482: the try block and its except branch, given what the call did:
\* the session id and the result afterwards, and the exception raised, if any
TryBlock(sid, o) ==
  IF "error" \in DOMAIN o
  THEN [session_id |-> sid, result |-> NoAnswer, exc |-> o.error]
  ELSE IF "sessionId" \notin DOMAIN o
  THEN [session_id |-> sid, result |-> NoAnswer, exc |-> "KeyError"]
  ELSE IF "output" \notin DOMAIN o
  THEN [session_id |-> o.sessionId, result |-> NoAnswer, exc |-> "KeyError"]
  ELSE [session_id |-> o.sessionId, result |-> o.output.text, exc |-> None]

\* variant of lines 489-494 without the `if self.name is None` test
PresentWidget_Always(txs, vals, bts, n, bb) ==
  [texts |-> Append(txs, [disabled |-> FALSE]),
   value |-> [w \in DOMAIN vals \cup {Len(txs) + 1} |->
                IF w \in DOMAIN vals THEN vals[w] ELSE ""],
   buttons |-> Append(bts, [disabled |-> FALSE]),
   name |-> Len(txs) + 1, b |-> Len(bts) + 1,
   shown |-> <<Line("display", "Box")>>]

\* variant of lines 489-494 whose new Text starts with a default text
PresentWidget_Prefilled(txs, vals, bts, n, bb) ==
  IF n = NoneRef
  THEN [texts |-> Append(txs, [disabled |-> FALSE]),
        value |-> [w \in DOMAIN vals \cup {Len(txs) + 1} |->
                     IF w \in DOMAIN vals THEN vals[w] ELSE "hi"],
        buttons |-> Append(bts, [disabled |-> FALSE]),
        name |-> Len(txs) + 1, b |-> Len(bts) + 1,
        shown |-> <<Line("display", "Box")>>]
  ELSE [texts |-> txs, value |-> vals, buttons |-> bts, name |-> n, b |-> bb,
        shown |-> <<>>]

\* variant of lines 489-494 that never creates a widget
PresentWidget_Never(txs, vals, bts, n, bb) ==
  [texts |-> txs, value |-> vals, buttons |-> bts, name |-> n, b |-> bb,
   shown |-> <<>>]

\* lines 489-494: unless self.name is set, a new Text/Button pair is created,
\* the button bound to chat, and the pair is displayed
PresentWidget(txs, vals, bts, n, bb) ==
  IF n = NoneRef
  THEN [texts |-> Append(txs, [disabled |-> FALSE]),
        value |-> [w \in DOMAIN vals \cup {Len(txs) + 1} |->
                     IF w \in DOMAIN vals THEN vals[w] ELSE ""],
        buttons |-> Append(bts, [disabled |-> FALSE]),
        name |-> Len(txs) + 1, b |-> Len(bts) + 1,
        shown |-> <<Line("display", "Box")>>]
  ELSE [texts |-> txs, value |-> vals, buttons |-> bts, name |-> n, b |-> bb,
        shown |-> <<>>]

\* variant of lines 485-486 that leaves the widget enabled
Disable_Noop(ws, i) == ws

\* lines 485-486: .disabled = True on widget i of ws
Disable(ws, i) == [ws EXCEPT ![i].disabled = TRUE]

\* lines 436-494: chat(_); sender is the Button passed as `_` (None from
\* start_chat)
chat(kind, sender) ==
  LET prompt == Prompt IN
  IF IsQuit(prompt)
  THEN \* lines 441-443
       /\ last' = [op |-> kind, sender |-> sender, branch |-> "quit",
                   prompt |-> prompt,
                   shown |-> <<Line("print", "Thank you , that was a nice chat !!")>>]
       /\ quitted' = TRUE
       /\ UNCHANGED <<session_id, name, b, texts, value, buttons, nCalls,
                      lastRequest, nAnswers, lastGen, hist>>
  ELSE IF Len(prompt) > 0
  THEN \* lines 444-487, then 489-494
       \E o \in ServiceOutcomes :
         LET r == TryBlock(session_id, o)
             escaped == r.exc # None /\ ~Catches(r.exc)
             excLine == IF r.exc = None THEN <<>> ELSE <<Line("print", r.exc)>>
             txs == Disable(texts, name)
             w == PresentWidget(txs,
                                [x \in {y \in DOMAIN value : ~txs[y].disabled}
                                   |-> value[x]],
                                Disable(buttons, b), NoneRef, b)
         IN
         /\ nCalls' = nCalls + 1
         /\ lastRequest' = RagRequest(session_id, prompt)
         /\ session_id' = r.session_id
         /\ lastGen' = [exc |-> r.exc, escaped |-> escaped,
                        raised |-> "error" \in DOMAIN o,
                        returned |-> IF "sessionId" \in DOMAIN o
                                     THEN o.sessionId ELSE None,
                        answer |-> IF "output" \in DOMAIN o
                                   THEN o.output.text ELSE None,
                        result |-> IF escaped THEN None ELSE r.result,
                        sidBefore |-> session_id,
                        prevRaised |-> lastGen.raised]
         /\ hist' = [okSid |-> IF r.exc = None THEN o.sessionId
                                ELSE hist.okSid,
                      carriedSid |-> IF "sessionId" \in DOMAIN o
                                     THEN o.sessionId ELSE hist.carriedSid]
         /\ IF escaped
            THEN \* the exception leaves chat at the failing statement
                 /\ last' = [op |-> kind, sender |-> sender, branch |-> "gen",
                             prompt |-> prompt,
                             shown |-> <<Line("display", "Thinking...")>>]
                 /\ UNCHANGED <<name, b, texts, value, buttons, nAnswers>>
            ELSE /\ last' = [op |-> kind, sender |-> sender, branch |-> "gen",
                             prompt |-> prompt,
                             shown |-> <<Line("display", "Thinking...")>>
                                       \o excLine
                                       \o <<Line("print:AI", r.result)>>
                                       \o w.shown]
                 /\ nAnswers' = nAnswers + 1
                 /\ texts' = w.texts
                 /\ value' = w.value
                 /\ buttons' = w.buttons
                 /\ name' = w.name
                 /\ b' = w.b
         /\ UNCHANGED quitted
  ELSE \* neither branch of lines 441-487, then 489-494
       LET w == PresentWidget(texts, value, buttons, name, b) IN
       /\ last' = [op |-> kind, sender |-> sender, branch |-> "empty",
                   prompt |-> prompt, shown |-> w.shown]
       /\ texts' = w.texts
       /\ value' = w.value
       /\ buttons' = w.buttons
       /\ name' = w.name
       /\ b' = w.b
       /\ UNCHANGED <<session_id, nCalls, lastRequest, nAnswers, lastGen,
                      quitted, hist>>

\* lines 431-434: start_chat
start_chat ==
  /\ ~started
  /\ started' = TRUE
  /\ chat("start", NoneRef)
  /\ UNCHANGED <<queue, knowledgebase_id, claude_v2_model_arn, cellVars>>

\* ---- the front end ------------------------------------------------------------
NumClicks(q) == Cardinality({i \in DOMAIN q : q[i].type = "click"})

\* the user types t in an enabled input box and clicks its Send button: the
\* value update and the click event are sent to the kernel, in this order
UserSubmit ==
  /\ Len(queue) + 2 <= MaxQueue
  /\ nCalls + NumClicks(queue) < MaxCalls
  /\ \E w \in DOMAIN texts, t \in Texts :
       /\ ~texts[w].disabled
       /\ ~buttons[w].disabled
       /\ queue' = queue \o <<[type |-> "set", w |-> w, value |-> t],
                              [type |-> "click", w |-> w, value |-> ""]>>
  /\ UNCHANGED <<started, session_id, name, b, texts, value, buttons, nCalls,
                 lastRequest, nAnswers, last, lastGen, quitted, hist,
                 knowledgebase_id, claude_v2_model_arn, cellVars>>

\* the user clicks an enabled Send button again, leaving the text as it is
UserClick ==
  /\ Len(queue) < MaxQueue
  /\ nCalls + NumClicks(queue) < MaxCalls
  /\ \E w \in DOMAIN buttons :
       /\ ~buttons[w].disabled
       /\ queue' = Append(queue, [type |-> "click", w |-> w, value |-> ""])
  /\ UNCHANGED <<started, session_id, name, b, texts, value, buttons, nCalls,
                 lastRequest, nAnswers, last, lastGen, quitted, hist,
                 knowledgebase_id, claude_v2_model_arn, cellVars>>

\* the kernel applies the next value update to the Text widget it names (an
\* update that arrives for a box disabled meanwhile changes no tracked text)
DispatchSet ==
  /\ queue # <<>>
  /\ Head(queue).type = "set"
  /\ queue' = Tail(queue)
  /\ value' = [w \in DOMAIN value |->
                 IF w = Head(queue).w THEN Head(queue).value ELSE value[w]]
  /\ UNCHANGED <<started, session_id, name, b, texts, buttons, nCalls,
                 lastRequest, nAnswers, last, lastGen, quitted, hist,
                 knowledgebase_id, claude_v2_model_arn, cellVars>>

\* the kernel runs the on_click callback (line 493) of the next click event
DispatchClick ==
  /\ queue # <<>>
  /\ Head(queue).type = "click"
  /\ queue' = Tail(queue)
  /\ chat("click", Head(queue).w)
  /\ UNCHANGED <<started, knowledgebase_id, claude_v2_model_arn, cellVars>>

\* lines 424-429 (and 516): the state after ChatUX(agent_runtime_client), the
\* setup cells having set knowledgebase_id and claude_v2_model_arn
Init ==
  /\ started = FALSE
  /\ session_id = None
  /\ name = NoneRef
  /\ b = NoneRef
  /\ texts = <<>>
  /\ value = <<>>
  /\ buttons = <<>>
  /\ queue = <<>>
  /\ nCalls = 0
  /\ lastRequest = None
  /\ nAnswers = 0
  /\ last = [op |-> "init", sender |-> NoneRef, branch |-> None,
             prompt |-> None, shown |-> <<>>]
  /\ lastGen = NoGen
  /\ quitted = FALSE
  /\ hist = [okSid |-> None, carriedSid |-> None]
  /\ knowledgebase_id \in KbIds \ {""}
  /\ claude_v2_model_arn = "arn:claude-v2:1"
  /\ pc = "end"
  /\ response = None
  /\ printed = <<>>
  /\ cellRequests = <<>>
  /\ modelSummaries = None
  /\ printedAnswer = None

Next ==
  \/ start_chat
  \/ UserSubmit
  \/ UserClick
  \/ DispatchSet
  \/ DispatchClick

Spec == Init /\ [][Next]_vars

\* ---- the notebook cells --------------------------------------------------------
\* sequences over S of length at most n
RECURSIVE SeqsUpTo(_, _)
SeqsUpTo(S, n) ==
  IF n = 0 THEN {<<>>}
  ELSE LET shorter == SeqsUpTo(S, n - 1) IN
       shorter \cup {Append(q, x) : q \in {r \in shorter : Len(r) = n - 1}, x \in S}

\* one entry of response['retrievalResults']
RetrievalEntries == [content : [text : Passages], score : Scores]

\* the errors a retrieve call can end with: unknown knowledge base id,
\* unreachable service, rejected arguments
RetrieveErrors ==
  {"ResourceNotFoundException", "EndpointConnectionError",
   "ValidationException"}

\* what the service can answer to retrieve: an error, or at most the requested
\* number of results
RetrieveOutcomes(n) ==
  [error : RetrieveErrors] \cup [retrievalResults : SeqsUpTo(RetrievalEntries, n)]

\* lines 298-308: the keyword arguments of retrieve
RetrieveRequest ==
  [op |-> "retrieve", knowledgeBaseId |-> knowledgebase_id,
   retrievalQuery |-> [text |-> "Toy Story"],
   numberOfResults |-> numberOfResults]

\* variant of line 324 that lists the results last to first
ResultPairs_Reversed(resp) ==
  [i \in DOMAIN resp.retrievalResults |->
     LET j == Len(resp.retrievalResults) + 1 - i IN
     <<resp.retrievalResults[j].content.text, resp.retrievalResults[j].score>>]

\* line 324: the list comprehension over response['retrievalResults']
ResultPairs(resp) ==
  [i \in DOMAIN resp.retrievalResults |->
     <<resp.retrievalResults[i].content.text, resp.retrievalResults[i].score>>]

\* variant of lines 287-289 without the assert statement
CellAssert_NoAssert ==
  /\ pc = "assert"
  /\ pc' = "retrieve"
  /\ UNCHANGED <<chatVars, knowledgebase_id, claude_v2_model_arn, response,
                 printed, cellRequests, modelSummaries, printedAnswer>>

\* lines 287-289: the assertion on knowledgebase_id
CellAssert ==
  /\ pc = "assert"
  /\ pc' = IF knowledgebase_id # "" THEN "retrieve" ELSE "AssertionError"
  /\ UNCHANGED <<chatVars, knowledgebase_id, claude_v2_model_arn, response,
                 printed, cellRequests, modelSummaries, printedAnswer>>

\* variant of lines 298-308 that repeats a failed call once and, failing
\* again, goes on with an empty result
CellRetrieve_Retries ==
  /\ pc = "retrieve"
  /\ \E o \in RetrieveOutcomes(numberOfResults) :
       IF "error" \in DOMAIN o
       THEN /\ pc' = "print"
            /\ response' = [retrievalResults |-> <<>>]
            /\ cellRequests' = cellRequests \o <<RetrieveRequest, RetrieveRequest>>
       ELSE /\ pc' = "print"
            /\ response' = o
            /\ cellRequests' = Append(cellRequests, RetrieveRequest)
  /\ UNCHANGED <<chatVars, knowledgebase_id, claude_v2_model_arn, printed,
                 modelSummaries, printedAnswer>>

\* lines 298-308: response = agent_runtime_client.retrieve(...); an error ends
\* the run of the notebook with that error
CellRetrieve ==
  /\ pc = "retrieve"
  /\ cellRequests' = Append(cellRequests, RetrieveRequest)
  /\ \E o \in RetrieveOutcomes(numberOfResults) :
       IF "error" \in DOMAIN o
       THEN /\ pc' = o.error
            /\ UNCHANGED response
       ELSE /\ pc' = "print"
            /\ response' = o
  /\ UNCHANGED <<chatVars, knowledgebase_id, claude_v2_model_arn, printed,
                 modelSummaries, printedAnswer>>

\* lines 324-325: print every (text, score) pair; "done": the retrieval cells
\* are done
CellPrint ==
  /\ pc = "print"
  /\ printed' = ResultPairs(response)
  /\ pc' = "done"
  /\ UNCHANGED <<chatVars, knowledgebase_id, claude_v2_model_arn, response,
                 cellRequests, modelSummaries, printedAnswer>>

\* one entry of list_foundation_models()['modelSummaries']
ModelSummaries == [modelId : ModelIds, modelArn : Arns]

\* what the service can answer to list_foundation_models
CatalogOutcomes ==
  {Raise} \cup [modelSummaries : SeqsUpTo(ModelSummaries, MaxModels)]

\* variant of line 360 that takes the last matching entry, and an empty ARN
\* when there is none
LookupArn_LastOrEmpty(summaries, id) ==
  LET matches == SelectSeq(summaries, LAMBDA x : x.modelId = id) IN
  IF matches = <<>>
  THEN [modelArn |-> ""]
  ELSE [modelArn |-> matches[Len(matches)].modelArn]

\* line 360: list(filter(lambda x: x['modelId'] == modelId, ...))[0]['modelArn']
LookupArn(summaries, id) ==
  LET matches == SelectSeq(summaries, LAMBDA x : x.modelId = id) IN
  IF matches = <<>>
  THEN [error |-> "IndexError"]
  ELSE [modelArn |-> matches[1].modelArn]

\* lines 359-360: the model catalog lookup
CellLookup ==
  /\ pc = "done"
  /\ cellRequests' = Append(cellRequests, [op |-> "list_foundation_models"])
  /\ \E o \in CatalogOutcomes :
       IF "error" \in DOMAIN o
       THEN /\ pc' = o.error
            /\ UNCHANGED <<modelSummaries, claude_v2_model_arn>>
       ELSE LET r == LookupArn(o.modelSummaries, modelId) IN
            /\ modelSummaries' = o.modelSummaries
            /\ IF "error" \in DOMAIN r
               THEN /\ pc' = r.error
                    /\ UNCHANGED claude_v2_model_arn
               ELSE /\ pc' = "rag"
                    /\ claude_v2_model_arn' = r.modelArn
  /\ UNCHANGED <<chatVars, knowledgebase_id, response, printed, printedAnswer>>

\* lines 369-380: the keyword arguments of retrieve_and_generate
CellRagRequest ==
  [op |-> "retrieve_and_generate",
   input |-> [text |-> "show me similar movies like \"Toy Story\" "],
   knowledgeBaseId |-> knowledgebase_id, modelArn |-> claude_v2_model_arn]

\* lines 369-380: response = agent_runtime_client.retrieve_and_generate(...)
CellRag ==
  /\ pc = "rag"
  /\ cellRequests' = Append(cellRequests, CellRagRequest)
  /\ \E o \in ServiceOutcomes :
       IF "error" \in DOMAIN o
       THEN /\ pc' = o.error
            /\ UNCHANGED response
       ELSE /\ pc' = "printAnswer"
            /\ response' = o
  /\ UNCHANGED <<chatVars, knowledgebase_id, claude_v2_model_arn, printed,
                 modelSummaries, printedAnswer>>

\* line 396: print(response['output']['text'])
CellPrintAnswer ==
  /\ pc = "printAnswer"
  /\ IF "output" \in DOMAIN response
     THEN /\ printedAnswer' = response.output.text
          /\ pc' = "end"
     ELSE /\ pc' = "KeyError"
          /\ UNCHANGED printedAnswer
  /\ UNCHANGED <<chatVars, knowledgebase_id, claude_v2_model_arn, response,
                 printed, cellRequests, modelSummaries>>

\* the notebook before its first code cell of the lab has run
InitNotebook ==
  /\ started = FALSE
  /\ session_id = None
  /\ name = NoneRef
  /\ b = NoneRef
  /\ texts = <<>>
  /\ value = <<>>
  /\ buttons = <<>>
  /\ queue = <<>>
  /\ nCalls = 0
  /\ lastRequest = None
  /\ nAnswers = 0
  /\ last = [op |-> "init", sender |-> NoneRef, branch |-> None,
             prompt |-> None, shown |-> <<>>]
  /\ lastGen = NoGen
  /\ quitted = FALSE
  /\ hist = [okSid |-> None, carriedSid |-> None]
  /\ knowledgebase_id \in KbIds
  /\ claude_v2_model_arn = None
  /\ pc = "assert"
  /\ response = None
  /\ printed = <<>>
  /\ cellRequests = <<>>
  /\ modelSummaries = None
  /\ printedAnswer = None

NextNotebook ==
  \/ CellAssert
  \/ CellRetrieve
  \/ CellPrint
  \/ CellLookup
  \/ CellRag
  \/ CellPrintAnswer

SpecNotebook == InitNotebook /\ [][NextNotebook]_vars

\* ---- properties -------------------------------------------------------------------
\* the step is the kernel running chat for the click event at the head of queue
ClickRuns == queue # <<>> /\ Head(queue).type = "click" /\ queue' = Tail(queue)

\* the step is such a run and it called retrieve_and_generate
CallMade == ClickRuns /\ nCalls' = nCalls + 1

\* str.lower() on the texts of the model
Lower(t) == CASE t = "Q" -> "q" [] t = "QUIT" -> "quit" [] OTHER -> t

\* C1: a turn whose input is q, Q or quit ends at once: no request is sent, the
\* session id is unchanged and no new input widget is presented.
C1_QuitTurnSendsNothing ==
  [][(ClickRuns /\ Prompt \in {"q", "Q", "quit"}) =>
       /\ last'.branch = "quit"
       /\ nCalls' = nCalls
       /\ lastRequest' = lastRequest
       /\ session_id' = session_id
       /\ texts' = texts
       /\ value' = value
       /\ buttons' = buttons
       /\ name' = name
       /\ b' = b
       /\ nAnswers' = nAnswers]_vars

C1_Witness ==
  /\ last.op = "click"
  /\ last.branch = "quit"
  /\ last.prompt = "Q"
  /\ session_id = "s1"

\* C2 as stated: every input equal to q or quit ignoring letter case ends the
\* turn without a retrieve_and_generate call.
C2_QuitIgnoresCase ==
  [][(ClickRuns /\ Lower(Prompt) \in {"q", "quit"}) =>
       (nCalls' = nCalls /\ last'.branch = "quit")]_vars

\* C2 amended: the sentinel is matched exactly. Among the inputs equal to q or
\* quit ignoring case, exactly q, Q and quit end the turn without a call; any
\* other case variant is forwarded to retrieve_and_generate as the query text.
C2_QuitMatchedExactly ==
  [][(ClickRuns /\ Lower(Prompt) \in {"q", "quit"}) =>
       IF Prompt \in {"q", "Q", "quit"}
       THEN nCalls' = nCalls /\ last'.branch = "quit"
       ELSE /\ nCalls' = nCalls + 1
            /\ last'.branch = "gen"
            /\ lastRequest'.input.text = Prompt]_vars

C2_Witness ==
  /\ last.op = "click"
  /\ last.branch = "gen"
  /\ last.prompt = "QUIT"
  /\ lastRequest.input.text = "QUIT"

\* C3: when the generation call raises, the turn displays "No answer" and leaves
\* the session id as it was, and the next generation call carries the session id
\* the failed call was made with.
C3_RaisedCallKeepsSession ==
  [][/\ (CallMade /\ lastGen'.raised) =>
          /\ session_id' = session_id
          /\ \E i \in DOMAIN last'.shown :
               last'.shown[i] = Line("print:AI", NoAnswer)
     /\ (CallMade /\ lastGen.raised) =>
          /\ session_id = lastGen.sidBefore
          /\ IF Truthy(lastGen.sidBefore)
             THEN /\ "sessionId" \in DOMAIN lastRequest'
                  /\ lastRequest'.sessionId = lastGen.sidBefore
             ELSE "sessionId" \notin DOMAIN lastRequest']_vars

C3_Witness ==
  /\ lastGen.prevRaised
  /\ nCalls = 3
  /\ "sessionId" \in DOMAIN lastRequest
  /\ lastRequest.sessionId = "s1"

\* C4 as stated: a call made while no session id has been obtained omits
\* sessionId, and the id returned by a call that succeeded is sent as sessionId
\* on the next call.
C4_ReturnedIdAlwaysSent ==
  [][CallMade =>
       /\ (session_id = None => "sessionId" \notin DOMAIN lastRequest')
       /\ (nCalls > 0 /\ lastGen.exc = None) =>
            /\ "sessionId" \in DOMAIN lastRequest'
            /\ lastRequest'.sessionId = lastGen.returned]_vars

\* C4 amended: a call made while no session id has been obtained omits
\* sessionId; the id returned by a call that succeeded is sent verbatim as
\* sessionId on the next call when it is non-empty, and when it is the empty
\* string the next call omits sessionId again.
C4_NonEmptyReturnedIdSent ==
  [][CallMade =>
       /\ (session_id = None => "sessionId" \notin DOMAIN lastRequest')
       /\ (nCalls > 0 /\ lastGen.exc = None) =>
            IF lastGen.returned # ""
            THEN /\ "sessionId" \in DOMAIN lastRequest'
                 /\ lastRequest'.sessionId = lastGen.returned
            ELSE "sessionId" \notin DOMAIN lastRequest']_vars

C4_Witness ==
  /\ nCalls = 2
  /\ \lnot lastGen.prevRaised
  /\ lastGen.sidBefore = "s1"
  /\ "sessionId" \in DOMAIN lastRequest
  /\ lastRequest.sessionId = "s1"

\* C5: a click with an empty input box does nothing: no call, nothing displayed,
\* session id, input widget and button unchanged, the same widget still enabled.
C5_EmptyInputNoAction ==
  [][(ClickRuns /\ name # NoneRef /\ Prompt = "") =>
       /\ last'.branch = "empty"
       /\ last'.shown = <<>>
       /\ nCalls' = nCalls
       /\ lastRequest' = lastRequest
       /\ nAnswers' = nAnswers
       /\ session_id' = session_id
       /\ name' = name
       /\ b' = b
       /\ texts' = texts
       /\ value' = value
       /\ buttons' = buttons
       /\ \lnot texts'[name'].disabled
       /\ \lnot buttons'[b'].disabled]_vars

C5_Witness ==
  /\ last.op = "click"
  /\ last.branch = "empty"
  /\ nCalls > 0

\* C6: a turn whose generation call raised does not let the exception out of
\* chat and presents a fresh enabled input widget; a later non-empty, non-quit
\* input calls retrieve_and_generate again.
C6_LoopContinuesAfterError ==
  [][/\ (CallMade /\ lastGen'.raised) =>
          /\ \lnot lastGen'.escaped
          /\ Len(texts') = Len(texts) + 1
          /\ name' = Len(texts')
          /\ b' = Len(buttons')
          /\ texts'[name'] = [disabled |-> FALSE]
          /\ value'[name'] = ""
          /\ buttons'[b'] = [disabled |-> FALSE]
          /\ texts'[name].disabled
          /\ buttons'[b].disabled
     /\ (ClickRuns /\ lastGen.raised /\ Prompt \notin {"", "q", "Q", "quit"}) =>
          /\ nCalls' = nCalls + 1
          /\ lastRequest'.input.text = Prompt]_vars

C6_Witness ==
  /\ lastGen.prevRaised
  /\ nCalls >= 2
  /\ last.branch = "gen"
  /\ last.prompt = "hi"

\* C7: once a quit sentinel has been submitted, no later input event leads to a
\* retrieve_and_generate call or to a new answer being displayed.
C7_QuitIsFinal ==
  [][quitted => (nCalls' = nCalls /\ nAnswers' = nAnswers)]_vars

\* the sessionId argument of a request, None when the field is omitted
SentSessionId(req) ==
  IF "sessionId" \in DOMAIN req THEN req.sessionId ELSE None

C9_ResultsInServiceOrder ==
  pc = "done" =>
    /\ Len(printed) <= numberOfResults
    /\ Len(printed) = Len(response.retrievalResults)
    /\ \A i \in DOMAIN printed :
         /\ printed[i][1] = response.retrievalResults[i].content.text
         /\ printed[i][2] = response.retrievalResults[i].score

C9_Witness ==
  /\ pc = "done"
  /\ Len(printed) = numberOfResults
  /\ printed[1] # printed[2]
  /\ printed[1] = printed[3]

C12_OneCallPerPrompt ==
  [][(ClickRuns /\ Prompt \notin {"", "q", "Q", "quit"}) =>
       /\ nCalls' = nCalls + 1
       /\ lastRequest'.input.text = Prompt
       /\ lastRequest'.knowledgeBaseId = knowledgebase_id
       /\ lastRequest'.modelArn = claude_v2_model_arn
       /\ DOMAIN lastRequest' \subseteq
            {"sessionId", "input", "knowledgeBaseId", "modelArn"}]_vars

C12_Witness ==
  /\ last.branch = "gen"
  /\ last.prompt = "QUIT"
  /\ lastGen.raised
  /\ nCalls = 1
  /\ lastRequest.input.text = "QUIT"
  /\ lastRequest.knowledgeBaseId = "KB1"

\* the "AI: ..." lines among the output of a run of chat
AnswerLines(shown) == {i \in DOMAIN shown : shown[i].kind = "print:AI"}

\* C13: a turn that calls retrieve_and_generate displays exactly one answer
\* line: the answer text the service returned when the try block succeeds, and
\* "No answer", after the printed error, when it fails.
C13_OneAnswerLinePerCall ==
  [][CallMade =>
       /\ nAnswers' = nAnswers + 1
       /\ Cardinality(AnswerLines(last'.shown)) = 1
       /\ \A i \in AnswerLines(last'.shown) :
            IF lastGen'.exc = None
            THEN /\ last'.shown[i].text = lastGen'.answer
                 /\ last'.shown[i].text \in Answers
            ELSE /\ last'.shown[i].text = NoAnswer
                 /\ i > 1
                 /\ last'.shown[i - 1] = Line("print", lastGen'.exc)]_vars

C13_Witness ==
  /\ nCalls = 2
  /\ hist.okSid = "s1"
  /\ lastGen.raised
  /\ lastGen.result = NoAnswer
  /\ nAnswers = 2

\* C14: whenever a turn ends by displaying "No answer", the stored session id
\* is the one from before the turn, whatever made the try block fail.
C14_FallbackKeepsSession ==
  [][(CallMade /\ lastGen'.result = NoAnswer) =>
       session_id' = session_id]_vars

\* C15: a click event that was queued for a button while that button's turn
\* was running is handled after the turn and does nothing: no
\* retrieve_and_generate call and no change of the loop's state.
C15_QueuedClickDoesNothing ==
  [][(ClickRuns /\ Head(queue).w # name) =>
       /\ Prompt = ""
       /\ last'.branch = "empty"
       /\ last'.shown = <<>>
       /\ nCalls' = nCalls
       /\ lastRequest' = lastRequest
       /\ nAnswers' = nAnswers
       /\ session_id' = session_id
       /\ name' = name
       /\ b' = b
       /\ texts' = texts
       /\ value' = value
       /\ buttons' = buttons]_vars

C15_Witness ==
  /\ last.op = "click"
  /\ last.sender # name
  /\ last.branch = "empty"
  /\ nCalls = 1
  /\ nAnswers = 1

\* the widgets of ws that are enabled
Enabled(ws) == {i \in DOMAIN ws : ~ws[i].disabled}

\* C16: after start_chat exactly the pair self.name / self.b is enabled, and a
\* turn that calls retrieve_and_generate disables the pair it read from and
\* presents exactly one new pair.
C16_OneEnabledPair ==
  [][/\ started' =>
          /\ name' # NoneRef
          /\ b' = name'
          /\ Enabled(texts') = {name'}
          /\ Enabled(buttons') = {b'}
          /\ Len(texts') = Len(buttons')
     /\ CallMade =>
          /\ texts'[name].disabled
          /\ buttons'[b].disabled
          /\ Len(texts') = Len(texts) + 1
          /\ Len(buttons') = Len(buttons) + 1
          /\ name' = Len(texts')]_vars

C16_Witness ==
  /\ Len(texts) = 3
  /\ Enabled(texts) = {3}
  /\ Enabled(buttons) = {3}
  /\ quitted

\* C17: start_chat calls chat with no input widget: the prompt is empty, no
\* retrieve_and_generate call is made, the session id stays absent and exactly
\* one enabled input widget with its Send button is presented.
C17_StartChatCallsNothing ==
  [][(~started /\ started') =>
       /\ last'.op = "start"
       /\ last'.prompt = ""
       /\ last'.branch = "empty"
       /\ nCalls' = 0
       /\ lastRequest' = None
       /\ session_id' = None
       /\ texts' = <<[disabled |-> FALSE]>>
       /\ buttons' = <<[disabled |-> FALSE]>>
       /\ value' = <<"">>
       /\ name' = 1
       /\ b' = 1
       /\ queue' = <<>>]_vars

C17_Witness ==
  /\ started
  /\ last.op = "start"
  /\ Len(texts) = 1
  /\ queue # <<>>

\* C18: as long as the service returns no empty session id, the stored session
\* id, once a turn has succeeded, is never absent again, and every later call
\* carries a sessionId.
C18_SessionStaysPresent ==
  [][/\ (CallMade /\ lastGen'.exc = None /\ lastGen'.returned # "") =>
          Truthy(session_id')
     /\ (Truthy(session_id) /\ (CallMade => lastGen'.returned # "")) =>
          Truthy(session_id')
     /\ (CallMade /\ Truthy(session_id)) =>
          "sessionId" \in DOMAIN lastRequest']_vars

C18_Witness ==
  /\ nCalls = 3
  /\ hist.okSid = "s1"
  /\ lastGen.prevRaised
  /\ lastGen.exc = "KeyError"
  /\ lastGen.returned = None
  /\ session_id = "s1"
  /\ lastRequest.sessionId = "s1"

\* C11: a retrieve call that fails is surfaced as it is: exactly one retrieve
\* request has been issued, the run ends with the error the call raised, and
\* no retrieval result is stored or printed.
C11_RetrieveErrorSurfaced ==
  /\ pc \in RetrieveErrors =>
       /\ Len(cellRequests) = 1
       /\ cellRequests[1] = RetrieveRequest
       /\ response = None
       /\ printed = <<>>
  /\ \A i \in DOMAIN cellRequests :
       cellRequests[i].op = "retrieve" => i = 1

C11_Witness ==
  /\ pc = "ResourceNotFoundException"
  /\ knowledgebase_id = "KB1"
  /\ Len(cellRequests) = 1

\* the positions of summaries whose modelId is id
Matching(summaries, id) == {i \in DOMAIN summaries : summaries[i].modelId = id}

\* C19: the catalog lookup yields the modelArn of the first listed summary
\* whose modelId is the target id; with no such summary it fails with the
\* IndexError and leaves no ARN, and no request is made with one.
C19_LookupFirstMatch ==
  modelSummaries # None =>
    LET m == Matching(modelSummaries, modelId) IN
    IF m = {}
    THEN /\ pc = "IndexError"
         /\ claude_v2_model_arn = None
         /\ \A i \in DOMAIN cellRequests :
              cellRequests[i].op # "retrieve_and_generate"
    ELSE /\ pc # "IndexError"
         /\ \E i \in m :
              /\ \A j \in m : i <= j
              /\ claude_v2_model_arn = modelSummaries[i].modelArn

C19_Witness ==
  /\ modelSummaries # None
  /\ Len(modelSummaries) = 2
  /\ modelSummaries[1].modelId = modelId
  /\ modelSummaries[2].modelId = modelId
  /\ modelSummaries[1].modelArn # modelSummaries[2].modelArn
  /\ claude_v2_model_arn = modelSummaries[1].modelArn
  /\ pc = "end"

\* a second case of C19: the catalog lists no summary with the target id
C19_WitnessNoMatch ==
  /\ modelSummaries # None
  /\ Len(modelSummaries) = 2
  /\ pc = "IndexError"

\* C20: with an empty knowledgebase_id the assertion fails before any request
\* is issued: no retrieve, list or retrieve_and_generate request is ever sent.
C20_EmptyIdSendsNothing ==
  knowledgebase_id = "" =>
    /\ cellRequests = <<>>
    /\ pc \in {"assert", "AssertionError"}
    /\ response = None

C20_Witness ==
  /\ knowledgebase_id = ""
  /\ pc = "AssertionError"

====
